---- MODULE Spec2Model ----
(***************************************************************************)
(* A model of the hday codec (backend/app/hday/parser.py, models.py) and   *)
(* of the per-user document store of the HTTP layer (backend/app/main.py). *)
(*                                                                         *)
(* A Python str is a sequence of one-character strings.  A raised          *)
(* exception is the outcome [raised |-> TRUE, ...] of the call, and it     *)
(* propagates through every caller as it does in Python.                   *)
(***************************************************************************)
EXTENDS Integers, Sequences, FiniteSets, TLC

(***************************************************************************)
(* Characters.                                                             *)
(***************************************************************************)
LowerAZ == <<"a","b","c","d","e","f","g","h","i","j","k","l","m",
            "n","o","p","q","r","s","t","u","v","w","x","y","z">>
UpperAZ == <<"A","B","C","D","E","F","G","H","I","J","K","L","M",
            "N","O","P","Q","R","S","T","U","V","W","X","Y","Z">>
Lower == {LowerAZ[i] : i \in DOMAIN LowerAZ}
Upper == {UpperAZ[i] : i \in DOMAIN UpperAZ}
Digits == {"0","1","2","3","4","5","6","7","8","9"}
\* The line boundaries of str.splitlines that the model's texts use.
LineBreaks == {"\n", "\r"}
\* str.strip() and the regex class \s: blanks and the line boundaries.
Whitespace == {" ", "\t"} \cup LineBreaks

\* [a-z] under re.I (the four non-ASCII letters re.I adds are outside the
\* model's alphabet).
IsLetter(c) == c \in Lower \cup Upper
\* \d
IsDigit(c) == c \in Digits

\* Optional[...] = None.  An absent string field is NoneStr, an absent
\* weekday is NoneInt (the weekdays of the model are naturals).
NoneStr == <<"<None>">>
NoneInt == -1

(***************************************************************************)
(* String helpers.                                                         *)
(***************************************************************************)
\* s[i:] with a 1-based i.
Drop(s, i) == SubSeq(s, i, Len(s))

\* The least and the greatest member of a non-empty set of positions.
Min(S) == CHOOSE j \in S : \A k \in S : j <= k
Max(S) == CHOOSE j \in S : \A k \in S : j >= k

\* The positions of s that hold no whitespace.
Inked(s) == {j \in 1..Len(s) : s[j] \notin Whitespace}

\* str.lstrip(), which is also what \s* skips.
LStrip(s) == IF Inked(s) = {} THEN <<>> ELSE SubSeq(s, Min(Inked(s)), Len(s))

\* str.strip()
Strip(s) == IF Inked(s) = {} THEN <<>> ELSE SubSeq(s, Min(Inked(s)), Max(Inked(s)))

\* str.splitlines(): a break ends the current line, "\r\n" is one break, and
\* what follows the last break is a line only if it is not empty.
RECURSIVE SplitFrom(_, _)
SplitFrom(s, i) ==
  LET B == {j \in i..Len(s) : s[j] \in LineBreaks}
      b == Min(B)
      n == IF s[b] = "\r" /\ b < Len(s) /\ s[b + 1] = "\n" THEN b + 2 ELSE b + 1
  IN IF i > Len(s) THEN <<>>
     ELSE IF B = {} THEN <<SubSeq(s, i, Len(s))>>
     ELSE <<SubSeq(s, i, b - 1)>> \o SplitFrom(s, n)

SplitLines(s) == SplitFrom(s, 1)

\* sep.join(parts)
RECURSIVE Join(_, _)
Join(parts, sep) ==
  IF parts = <<>> THEN <<>>
  ELSE IF Len(parts) = 1 THEN parts[1]
  ELSE parts[1] \o sep \o Join(Tail(parts), sep)

\* int(c) of one decimal digit.
DigitVal(c) ==
  CASE c = "0" -> 0 [] c = "1" -> 1 [] c = "2" -> 2 [] c = "3" -> 3
    [] c = "4" -> 4 [] c = "5" -> 5 [] c = "6" -> 6 [] c = "7" -> 7
    [] c = "8" -> 8 [] c = "9" -> 9

DigitChar(n) == CHOOSE c \in Digits : DigitVal(c) = n

\* str(n) of a natural number.
RECURSIVE StrNat(_)
StrNat(n) ==
  IF n < 10 THEN <<DigitChar(n)>>
  ELSE StrNat(n \div 10) \o <<DigitChar(n % 10)>>

\* f"{v}" of an Optional[str] and of an Optional[int].
FmtStr(v) == IF v = NoneStr THEN <<"N","o","n","e">> ELSE v
FmtInt(n) == IF n = NoneInt THEN <<"N","o","n","e">> ELSE StrNat(n)

(***************************************************************************)
(* Flag Mapper.                                                            *)
(***************************************************************************)
PREFIX_MAP ==
  [ch \in {"a","p","b","e","h","i","k","s","u","w","n","f"} |->
    CASE ch = "a" -> "half_am"  [] ch = "p" -> "half_pm"
      [] ch = "b" -> "business" [] ch = "e" -> "weekend"
      [] ch = "h" -> "birthday" [] ch = "i" -> "ill"
      [] ch = "k" -> "in"       [] ch = "s" -> "course"
      [] ch = "u" -> "other"    [] ch = "w" -> "onsite"
      [] ch = "n" -> "no_fly"   [] ch = "f" -> "can_fly"]

KnownTags == {PREFIX_MAP[ch] : ch \in DOMAIN PREFIX_MAP}

\* {v: k for k, v in PREFIX_MAP.items()}: the values are distinct.
REV_MAP == [v \in KnownTags |-> CHOOSE k \in DOMAIN PREFIX_MAP : PREFIX_MAP[k] = v]

\* PREFIX_MAP.get(ch, f'flag_{ch}'): the letter is looked up as written.
LetterToTag(ch) ==
  IF ch \in DOMAIN PREFIX_MAP THEN PREFIX_MAP[ch] ELSE "flag_" \o ch

\* [PREFIX_MAP.get(ch, f'flag_{ch}') for ch in prefix]
Decode(letters) == [i \in 1..Len(letters) |-> LetterToTag(letters[i])]

\* REV_MAP.get(f, '')
TagToLetter(f) == IF f \in DOMAIN REV_MAP THEN <<REV_MAP[f]>> ELSE <<>>

(***************************************************************************)
(* Flag Normalizer.                                                        *)
(***************************************************************************)
time_location_flags == <<"half_am", "half_pm", "onsite", "no_fly", "can_fly">>
type_flags == <<"business", "weekend", "birthday", "ill", "in", "course", "other">>

SeqRange(s) == {s[i] : i \in DOMAIN s}
TimeLocationFamily == SeqRange(time_location_flags)
TypeFamily == SeqRange(type_flags)

\* [f for f in flags if f in family]
Found(flags, family) == LET In(f) == f \in family IN SelectSeq(flags, In)

\* The filter of one family: with more than one member found, every member
\* other than the first found one is dropped (an entry equal to the first one
\* passes the test f == first_flag).
KeepFirst(flags, family) ==
  LET found == Found(flags, family)
      Keep(f) == f \notin family \/ f = found[1]
  IN IF Len(found) > 1 THEN SelectSeq(flags, Keep) ELSE flags

normalize_flags(flags) == KeepFirst(KeepFirst(flags, TimeLocationFamily), TypeFamily)

(***************************************************************************)
(* Event Model.                                                            *)
(***************************************************************************)
\* Flag = Literal[...] of models.py.
Flag == {"half_am", "half_pm", "business", "course", "in", "holiday"}

\* The defaults of the fields of HdayEvent.
EventDefaults ==
  [type |-> "unknown", start |-> NoneStr, end |-> NoneStr, weekday |-> NoneInt,
   flags |-> <<>>, title |-> <<>>, raw |-> <<>>]

\* HdayEvent(**fields): pydantic validates the fields on construction, and a
\* flag outside the Literal raises ValidationError.
HdayEvent(fields) ==
  LET ev == [k \in DOMAIN EventDefaults |->
               IF k \in DOMAIN fields THEN fields[k] ELSE EventDefaults[k]]
  IN [raised |-> \E i \in DOMAIN ev.flags : ev.flags[i] \notin Flag,
      ev |-> ev]

(***************************************************************************)
(* Line Classifier.                                                        *)
(***************************************************************************)
\* The length of the run of letters s starts with: what [a-z]* (greedy) and
\* [a-z]*? (lazy) both take, since what follows them starts with no letter.
LetterRun(s) ==
  LET N == {j \in 1..Len(s) : ~IsLetter(s[j])}
  IN IF N = {} THEN Len(s) ELSE Min(N) - 1

\* \d{4}/\d{2}/\d{2} at position i of s.
IsDateAt(s, i) ==
  /\ i + 9 <= Len(s)
  /\ \A j \in {0, 1, 2, 3, 5, 6, 8, 9} : IsDigit(s[i + j])
  /\ s[i + 4] = "/"
  /\ s[i + 7] = "/"

\* (?:\s*#\s*(?P<title>.*))?$ on the rest of a line: the group is absent on
\* an empty rest (title None), and "." takes no "\n".
MatchTitle(rest) ==
  LET r == LStrip(rest)
      t == LStrip(Tail(r))
  IN IF rest = <<>> THEN [ok |-> TRUE, title |-> NoneStr]
     ELSE IF r # <<>> /\ Head(r) = "#" /\ "\n" \notin SeqRange(t)
          THEN [ok |-> TRUE, title |-> t]
     ELSE [ok |-> FALSE, title |-> NoneStr]

NoMatch == [ok |-> FALSE]

\* RE_RANGE.match(ln): None, or the groups prefix, start, end, title.
RE_RANGE(ln) ==
  LET p == LetterRun(ln)
      a == p + 11
      hasEnd == a <= Len(ln) /\ ln[a] = "-" /\ IsDateAt(ln, a + 1)
      t == MatchTitle(Drop(ln, IF hasEnd THEN a + 11 ELSE a))
  IN IF IsDateAt(ln, p + 1) /\ t.ok
     THEN [ok |-> TRUE, prefix |-> SubSeq(ln, 1, p),
           start |-> SubSeq(ln, p + 1, p + 10),
           end |-> IF hasEnd THEN SubSeq(ln, a + 1, a + 10) ELSE NoneStr,
           title |-> t.title]
     ELSE NoMatch

\* RE_WEEKLY.match(ln): None, or the groups weekday, suffix, title.
RE_WEEKLY(ln) ==
  LET k == LetterRun(Drop(ln, 3))
      t == MatchTitle(Drop(ln, 3 + k))
  IN IF /\ Len(ln) >= 2
        /\ ln[1] \in {"d", "D"}
        /\ ln[2] \in {"1", "2", "3", "4", "5", "6", "7"}
        /\ t.ok
     THEN [ok |-> TRUE, weekday |-> ln[2], suffix |-> SubSeq(ln, 3, 2 + k),
           title |-> t.title]
     ELSE NoMatch

(***************************************************************************)
(* Codec.                                                                  *)
(***************************************************************************)
\* LineFlags with holiday appended whether or not a type flag is left.
LineFlags_AlwaysHoliday(letters) == Append(normalize_flags(Decode(letters)), "holiday")

\* The flags of a matched line: decoded letter by letter, normalized, and
\* with holiday appended when no type flag is left.
LineFlags(letters) ==
  LET flags == normalize_flags(Decode(letters))
  IN IF \E i \in DOMAIN flags : flags[i] \in TypeFamily
     THEN flags ELSE Append(flags, "holiday")

\* x or y of an optional string.
OrElse(x, y) == IF x = NoneStr \/ x = <<>> THEN y ELSE x

\* One turn of the loop of parse_text: the event of one line, or the
\* exception its construction raises.
ParseLine(ln) ==
  LET m == RE_RANGE(ln)
      w == RE_WEEKLY(ln)
  IN IF m.ok
     THEN HdayEvent([type |-> "range", start |-> m.start,
                     end |-> OrElse(m.end, m.start),
                     flags |-> LineFlags(OrElse(m.prefix, <<>>)),
                     title |-> Strip(OrElse(m.title, <<>>)), raw |-> ln])
     ELSE IF w.ok
     THEN HdayEvent([type |-> "weekly", weekday |-> DigitVal(w.weekday),
                     flags |-> LineFlags(OrElse(w.suffix, <<>>)),
                     title |-> Strip(OrElse(w.title, <<>>)), raw |-> ln])
     ELSE HdayEvent([type |-> "unknown", raw |-> ln, flags |-> <<"holiday">>])

\* [l.strip() for l in text.splitlines() if l.strip()]
NonBlankLines(text) ==
  LET ls == SplitLines(text)
      stripped == [i \in DOMAIN ls |-> Strip(ls[i])]
      NonEmpty(l) == l # <<>>
  IN SelectSeq(stripped, NonEmpty)

Raised == [raised |-> TRUE, events |-> <<>>]

RECURSIVE ParseLines(_, _)
ParseLines(lines, events) ==
  IF lines = <<>> THEN [raised |-> FALSE, events |-> events]
  ELSE LET r == ParseLine(Head(lines))
       IN IF r.raised THEN Raised
          ELSE ParseLines(Tail(lines), Append(events, r.ev))

parse_text(text) == ParseLines(NonBlankLines(text), <<>>)

flag_order ==
  <<"business", "weekend", "birthday", "ill", "in", "course", "other",
    "half_am", "half_pm", "onsite", "no_fly", "can_fly">>

\* ''.join(REV_MAP.get(f, '') for f in sorted_flags)
RECURSIVE Letters(_)
Letters(tags) ==
  IF tags = <<>> THEN <<>> ELSE TagToLetter(Head(tags)) \o Letters(Tail(tags))

\* Pref with the letters in the order of the flags list.
Pref_DecodeOrder(flags) ==
  LET Known(f) == f \in SeqRange(flag_order)
  IN Letters(SelectSeq(flags, Known))

\* The prefix letters of an event: its flags that flag_order lists, in the
\* order of flag_order.
Pref(flags) ==
  LET Has(f) == f \in SeqRange(flags)
  IN Letters(SelectSeq(flag_order, Has))

\* f" # {ev.title}" if ev.title else ''
TitleSuffix(title) ==
  IF title = NoneStr \/ title = <<>> THEN <<>> ELSE <<" ", "#", " ">> \o title

\* RenderEvent with an empty line for an event that is neither range nor
\* weekly.
RenderEvent_SkipsUnknown(ev) ==
  IF ev.type = "range"
  THEN Pref(ev.flags) \o FmtStr(ev.start) \o <<"-">> \o FmtStr(ev.end)
         \o TitleSuffix(ev.title)
  ELSE IF ev.type = "weekly"
  THEN <<"d">> \o FmtInt(ev.weekday) \o Pref(ev.flags) \o TitleSuffix(ev.title)
  ELSE <<>>

\* One turn of the loop of to_text: the line of one event.
RenderEvent(ev) ==
  IF ev.type = "range"
  THEN Pref(ev.flags) \o FmtStr(ev.start) \o <<"-">> \o FmtStr(ev.end)
         \o TitleSuffix(ev.title)
  ELSE IF ev.type = "weekly"
  THEN <<"d">> \o FmtInt(ev.weekday) \o Pref(ev.flags) \o TitleSuffix(ev.title)
  ELSE OrElse(ev.raw, <<>>)

to_text(events) == Join([i \in DOMAIN events |-> RenderEvent(events[i])], <<"\n">>)

(***************************************************************************)
(* The HTTP layer: one .hday file per user under SHARE_DIR, and the audit  *)
(* log.                                                                    *)
(***************************************************************************)
NoFile == [exists |-> FALSE, text |-> <<>>]

\* p.read_text(encoding='utf-8') if p.exists() else ''
ReadFile(f) == IF f.exists THEN f.text ELSE <<>>

\* The response of get_hday: HdayDocument(raw=text, events=parse_text(text)),
\* or the exception parse_text raises.
GetResponse(user, f) ==
  LET stored == ReadFile(f)
      r == parse_text(stored)
  IN IF r.raised
     THEN [op |-> "get", user |-> user, raised |-> TRUE, raw |-> <<>>, events |-> <<>>]
     ELSE [op |-> "get", user |-> user, raised |-> FALSE, raw |-> stored,
           events |-> r.events]

\* The line log.append adds for one write (its timestamp left out).
AuditLine(current_user, user, events) ==
  [user |-> current_user, target |-> user, action |-> "write_hday",
   details |-> Len(events)]

(***************************************************************************)
(* Bounds and inputs.                                                      *)
(***************************************************************************)
\* The longest run of prefix or suffix letters of an input line.
MaxLetters == 2
\* The most lines of an input text.
MaxLines == 2
\* The most flags of an event of a client document.
MaxFlags == 3
\* The most put_hday requests of one run.
MaxPuts == 2

\* The letters of the table, a lower-case letter with no entry, and an
\* upper-case letter.
InputLetters == DOMAIN PREFIX_MAP \cup {"x", "A"}

LetterSeqs == UNION {[1..n -> InputLetters] : n \in 0..MaxLetters}

DateA == <<"2","0","2","4","/","0","7","/","0","1">>
DateB == <<"2","0","2","4","/","0","7","/","0","5">>
DateC == <<"2","0","2","4","/","0","2","/","0","2">>
SummerTrip == <<"S","u","m","m","e","r"," ","t","r","i","p">>

\* What follows the start date of a range line.
RangeTails ==
  { <<>>,
    <<"-">> \o DateB,
    <<" ", "#", " ">> \o SummerTrip,
    <<"-">> \o DateB \o <<" ", "#", " ">> \o SummerTrip,
    <<"-">> \o DateB \o <<"#">>,
    <<"\t", "#", "#", "b">>,
    <<"-", "x">>,
    <<" ", "t">> }

\* What follows the letters of a weekly line.
WeeklyTails == { <<>>, <<" ", "#", " ", "t">>, <<"#">>, <<" ", "t">> }

WeeklyHeads == { <<"d", "3">>, <<"D", "7">> }

FewLetterSeqs == { <<>>, <<"b">>, <<"a", "b">>, <<"w">> }

PlainTails == { <<>>, <<" ", "#", " ", "t">> }

\* The lines of every run of letters, with and without a title.
RangeLines == {p \o DateA \o t : p \in LetterSeqs, t \in PlainTails}
WeeklyLines == {<<"d", "3">> \o p \o t : p \in LetterSeqs, t \in PlainTails}

\* The lines of a few runs of letters, with every tail.
FewRangeLines ==
  {p \o DateA \o t : p \in FewLetterSeqs, t \in RangeTails}
    \cup {<<"a", "b">> \o DateC, <<"a", "p">> \o DateC, <<"b", "s">> \o DateC}
FewWeeklyLines ==
  {h \o p \o t : h \in WeeklyHeads, p \in FewLetterSeqs, t \in WeeklyTails}

OtherLines ==
  { <<"n","o","t"," ","a"," ","l","i","n","e">>, <<"d", "8">>, <<"d">>, <<"#">>,
    <<"2","0","2","4","/","7","/","1">>, DateA \o <<"-">> }

\* A line as it stands in a text, with blanks around it or without.
Padded(l) == { l, <<" ">> \o l \o <<"\t">> }

BlankLines == { <<>>, <<" ">> }

\* The lines the texts of several lines are made of.
FewLines ==
  { <<>>, <<" ">>, <<"n", "o">>, <<" ", "d", "3", "b">>, <<"w">> \o DateA,
    <<"a", "b">> \o DateC, DateA \o <<" ", "#", " ", "t">> }

LineSeqs == UNION {[1..n -> FewLines] : n \in 2..MaxLines}

Texts ==
  BlankLines \cup RangeLines \cup WeeklyLines
    \cup UNION {Padded(l) : l \in FewRangeLines \cup FewWeeklyLines \cup OtherLines}
    \cup {Join(ls, sep) \o end : ls \in LineSeqs, sep \in {<<"\n">>, <<"\r", "\n">>},
                                 end \in {<<>>, <<"\n">>}}

FlagSeqs == UNION {[1..n -> Flag] : n \in 0..MaxFlags}

\* The events of a client document: pydantic has validated them, so every
\* flag is of the Literal, in any order and number.
DocEvents ==
  {HdayEvent([type |-> "range", start |-> DateA, end |-> DateB, flags |-> fs]).ev :
     fs \in FlagSeqs}
    \cup {HdayEvent([type |-> "weekly", weekday |-> 3, flags |-> fs,
                     title |-> <<"t">>]).ev : fs \in FlagSeqs}

(***************************************************************************)
(* State.                                                                  *)
(***************************************************************************)
VARIABLES
  src,        \* "text": the run parses a text; "doc": it renders a document
  text,       \* the input text
  pc,         \* how far the run has got
  parsed,     \* parse_text(text), or the client document
  rendered,   \* to_text of parsed
  reparsed,   \* parse_text of rendered
  rerendered, \* to_text of reparsed
  files,      \* the .hday file of each user
  audit,      \* the lines of the audit log
  lastPut,    \* the events of each user's most recent put_hday
  resp        \* the response to the last request

codecVars == <<src, text, pc, parsed, rendered, reparsed, rerendered>>
storeVars == <<files, audit, lastPut, resp>>
vars == <<src, text, pc, parsed, rendered, reparsed, rerendered,
          files, audit, lastPut, resp>>

Users == {"u1", "u2"}
\* The X-User header of a request, 'devuser' by default.
Callers == {"devuser", "u1"}

NoPut == [put |-> FALSE, events |-> <<>>]
NoResponse == [op |-> "none", user |-> "", raised |-> FALSE, raw |-> <<>>, events |-> <<>>]
NoText == [raised |-> FALSE, text |-> <<>>]
NoEvents == [raised |-> FALSE, events |-> <<>>]

StoreInit ==
  /\ files = [u \in Users |-> NoFile]
  /\ audit = <<>>
  /\ lastPut = [u \in Users |-> NoPut]
  /\ resp = NoResponse

(***************************************************************************)
(* The codec applied to a text, and to a client document.                  *)
(***************************************************************************)
Init ==
  /\ \/ src = "text" /\ text \in Texts /\ pc = "start" /\ parsed = NoEvents
     \/ /\ src = "doc" /\ text = <<>> /\ pc = "parsed"
        /\ \E ev \in DocEvents : parsed = [raised |-> FALSE, events |-> <<ev>>]
  /\ rendered = NoText
  /\ reparsed = NoEvents
  /\ rerendered = NoText
  /\ StoreInit

\* parse_text(t) of what an earlier call returned: its exception propagates.
ParseOf(t) == IF t.raised THEN Raised ELSE parse_text(t.text)

\* to_text(p.events) of what an earlier call returned.
RenderOf(p) ==
  IF p.raised THEN [raised |-> TRUE, text |-> <<>>]
  ELSE [raised |-> FALSE, text |-> to_text(p.events)]

Parse ==
  /\ pc = "start"
  /\ parsed' = parse_text(text)
  /\ pc' = "parsed"
  /\ UNCHANGED <<src, text, rendered, reparsed, rerendered, storeVars>>

Render ==
  /\ pc = "parsed"
  /\ rendered' = RenderOf(parsed)
  /\ pc' = "rendered"
  /\ UNCHANGED <<src, text, parsed, reparsed, rerendered, storeVars>>

Reparse ==
  /\ pc = "rendered"
  /\ reparsed' = ParseOf(rendered)
  /\ pc' = "reparsed"
  /\ UNCHANGED <<src, text, parsed, rendered, rerendered, storeVars>>

Rerender ==
  /\ pc = "reparsed"
  /\ rerendered' = RenderOf(reparsed)
  /\ pc' = "rerendered"
  /\ UNCHANGED <<src, text, parsed, rendered, reparsed, storeVars>>

Next == Parse \/ Render \/ Reparse \/ Rerender

Spec == Init /\ [][Next]_vars

(***************************************************************************)
(* The document store under get_hday and put_hday requests.                *)
(***************************************************************************)
\* The documents clients put: lists of validated events.
PutEvents ==
  { HdayEvent([type |-> "range", start |-> DateA, end |-> DateB,
               flags |-> <<"half_am", "business">>, title |-> <<"t">>]).ev,
    HdayEvent([type |-> "weekly", weekday |-> 3, flags |-> <<"holiday">>]).ev,
    HdayEvent([type |-> "unknown", raw |-> <<"n", "o">>]).ev,
    HdayEvent([type |-> "unknown", raw |-> <<"d", "3", "w">>]).ev }

PutDocs == UNION {[1..n -> PutEvents] : n \in 0..2}

StoreInitAll ==
  /\ src = "text" /\ text = <<>> /\ pc = "idle"
  /\ parsed = NoEvents /\ rendered = NoText
  /\ reparsed = NoEvents /\ rerendered = NoText
  /\ StoreInit

get_hday(user) ==
  /\ resp' = GetResponse(user, files[user])
  /\ UNCHANGED <<files, audit, lastPut, codecVars>>

put_hday(user, events, current_user) ==
  /\ Len(audit) < MaxPuts
  /\ files' = [files EXCEPT ![user] = [exists |-> TRUE, text |-> to_text(events)]]
  /\ audit' = Append(audit, AuditLine(current_user, user, events))
  /\ lastPut' = [lastPut EXCEPT ![user] = [put |-> TRUE, events |-> events]]
  /\ resp' = [op |-> "put", user |-> user, raised |-> FALSE,
              raw |-> <<"O", "K">>, events |-> <<>>]
  /\ UNCHANGED codecVars

NextStore ==
  \/ \E u \in Users : get_hday(u)
  \/ \E u \in Users, d \in PutDocs, c \in Callers : put_hday(u, d, c)

SpecStore == StoreInitAll /\ [][NextStore]_vars

(***************************************************************************)
(* Properties.                                                             *)
(***************************************************************************)
\* The non-blank lines of the input text, trimmed.
Lines == NonBlankLines(text)

Matched(l) == RE_RANGE(l).ok \/ RE_WEEKLY(l).ok

\* The prefix letters of a range line, the suffix letters of a weekly line.
LettersOf(l) == IF RE_RANGE(l).ok THEN RE_RANGE(l).prefix ELSE RE_WEEKLY(l).suffix

\* The letters a rendered line carries for its event: before the date of a
\* range line, after d<weekday> of a weekly line.
WrittenLetters(ev, line) ==
  IF ev.type = "range" THEN SubSeq(line, 1, LetterRun(line))
  ELSE SubSeq(line, 3, 2 + LetterRun(Drop(line, 3)))

RenderedLines == SplitLines(rendered.text)

FamilyCount(flags, family) == Cardinality({i \in DOMAIN flags : flags[i] \in family})

ToLower(c) ==
  IF c \in Upper THEN LowerAZ[CHOOSE i \in DOMAIN UpperAZ : UpperAZ[i] = c] ELSE c

LowerCased(l) == [i \in DOMAIN l |-> ToLower(l[i])]

ParsedText == src = "text" /\ pc # "start"
RenderedText == src = "text" /\ pc \in {"rendered", "reparsed", "rerendered"}
ReparsedText == src = "text" /\ pc \in {"reparsed", "rerendered"}

\* C1: for every text parse_text returns without raising, one event per
\* non-blank line, in the order of the lines.
C1_ParseTotal ==
  ParsedText =>
    /\ ~parsed.raised
    /\ Len(parsed.events) = Len(Lines)
    /\ \A i \in DOMAIN Lines : parsed.events[i].raw = Lines[i]

\* Two events agree on type, start, end, weekday, title, on their flags as a
\* set, and, if unknown, on their raw text.
SameEvent(a, b) ==
  /\ a.type = b.type /\ a.start = b.start /\ a.end = b.end
  /\ a.weekday = b.weekday /\ a.title = b.title
  /\ SeqRange(a.flags) = SeqRange(b.flags)
  /\ (a.type = "unknown" => a.raw = b.raw)

SameEvents(p, q) ==
  /\ Len(p) = Len(q)
  /\ \A i \in DOMAIN p : SameEvent(p[i], q[i])

\* C2: for every text, parsing the rendering of the parsed text yields the
\* events of the parsed text again.
C2_RoundTrip ==
  ReparsedText =>
    /\ ~parsed.raised
    /\ ~reparsed.raised
    /\ SameEvents(parsed.events, reparsed.events)

\* Where parse_text returns, the round trip does hold.
RoundTripWhereParsed ==
  ReparsedText /\ ~parsed.raised =>
    ~reparsed.raised /\ SameEvents(parsed.events, reparsed.events)

\* C3: for every text, rendering, parsing and rendering again yields the
\* first rendering, character for character.
C3_RenderIdempotent ==
  src = "text" /\ pc = "rerendered" =>
    /\ ~rendered.raised
    /\ ~rerendered.raised
    /\ rerendered.text = rendered.text

\* Where parse_text returns, the second rendering is the first one.
IdempotentWhereParsed ==
  src = "text" /\ pc = "rerendered" /\ ~parsed.raised =>
    ~rerendered.raised /\ rerendered.text = rendered.text

\* C4: every event parse_text returns has at most one flag entry of the type
\* family and at most one of the time/location family, the first decoded one.
C4_FlagExclusive ==
  ParsedText /\ ~parsed.raised =>
    \A i \in DOMAIN parsed.events :
      LET fl == parsed.events[i].flags
          dec == Decode(LettersOf(Lines[i]))
      IN \A family \in {TypeFamily, TimeLocationFamily} :
           /\ FamilyCount(fl, family) <= 1
           /\ Matched(Lines[i]) /\ Found(dec, family) # <<>> =>
                Found(fl, family) = <<Found(dec, family)[1]>>

\* C5: a non-blank line matching neither grammar becomes an unknown event
\* whose raw text is the trimmed line, with no letter decoded, and renders as
\* that trimmed line.
C5_UnknownPassthrough ==
  /\ \A i \in DOMAIN Lines :
       ~Matched(Lines[i]) =>
         LET r == ParseLine(Lines[i])
         IN /\ ~r.raised
            /\ r.ev.type = "unknown"
            /\ r.ev.raw = Lines[i]
            /\ r.ev.flags = <<"holiday">>
            /\ RenderEvent(r.ev) = Lines[i]
  /\ RenderedText /\ ~parsed.raised =>
       /\ Len(RenderedLines) = Len(Lines)
       /\ \A i \in DOMAIN Lines :
            ~Matched(Lines[i]) =>
              /\ parsed.events[i].type = "unknown"
              /\ parsed.events[i].raw = Lines[i]
              /\ RenderedLines[i] = Lines[i]
       /\ Len(Lines) = 1 /\ ~Matched(Lines[1]) => rendered.text = Strip(text)

\* A text with blanks around a line of neither grammar has been rendered.
C5_Witness ==
  /\ RenderedText /\ ~parsed.raised
  /\ Len(Lines) = 1 /\ ~Matched(Lines[1])
  /\ text # Lines[1]
  /\ rendered.text = Lines[1]

\* C6: a letter with no table entry decodes to an opaque tag carrying the
\* letter, normalization keeps the tag, to_text writes the letter back, and
\* parsing the rendered line yields the tag again.
C6_UnknownLetterRoundTrip ==
  ReparsedText =>
    \A i \in DOMAIN Lines :
      Matched(Lines[i]) =>
        \A j \in DOMAIN LettersOf(Lines[i]) :
          LET ch == LettersOf(Lines[i])[j]
              tag == "flag_" \o ch
              fl == LineFlags(LettersOf(Lines[i]))
          IN ch \notin DOMAIN PREFIX_MAP =>
               /\ LetterToTag(ch) = tag
               /\ tag \in SeqRange(fl)
               /\ ch \in SeqRange(Pref(fl))
               /\ ~parsed.raised /\ ~reparsed.raised
               /\ tag \in SeqRange(parsed.events[i].flags)
               /\ tag \in SeqRange(reparsed.events[i].flags)

SummerTripLine == DateA \o <<"-">> \o DateB \o <<" ", "#", " ">> \o SummerTrip

\* The letters of the type family.
TypeLetters == {ch \in DOMAIN PREFIX_MAP : PREFIX_MAP[ch] \in TypeFamily}

\* C7: the flags of a range or weekly line hold holiday exactly when its
\* decoded letters hold no type flag; to_text writes no letter for holiday,
\* so a holiday event renders with no type letter.
C7_ImplicitHoliday ==
  /\ \A i \in DOMAIN Lines :
       Matched(Lines[i]) =>
         LET L == LettersOf(Lines[i])
             fl == LineFlags(L)
         IN /\ "holiday" \in SeqRange(fl) <=>
                 ~\E j \in DOMAIN L : LetterToTag(L[j]) \in TypeFamily
            /\ "holiday" \in SeqRange(fl) => SeqRange(Pref(fl)) \cap TypeLetters = {}
            /\ Pref(<<"holiday">>) = <<>>
  /\ RenderedText /\ ~parsed.raised =>
       \A i \in DOMAIN parsed.events :
         LET ev == parsed.events[i]
         IN ev.type \in {"range", "weekly"} =>
              /\ "holiday" \in SeqRange(ev.flags) <=> FamilyCount(ev.flags, TypeFamily) = 0
              /\ "holiday" \in SeqRange(ev.flags) =>
                   SeqRange(WrittenLetters(ev, RenderedLines[i])) \cap TypeLetters = {}
  /\ RenderedText /\ text = SummerTripLine =>
       /\ parsed = [raised |-> FALSE, events |->
            <<[type |-> "range", start |-> DateA, end |-> DateB, weekday |-> NoneInt,
               flags |-> <<"holiday">>, title |-> SummerTrip, raw |-> text]>>]
       /\ rendered = [raised |-> FALSE, text |-> text]

\* The summer trip line has been parsed and rendered.
C7_Witness ==
  /\ RenderedText /\ text = SummerTripLine
  /\ parsed.events[1].flags = <<"holiday">>
  /\ rendered.text = SummerTripLine

\* C8: the d of a weekly line and every flag letter are accepted in either
\* case, and an upper-case letter decodes to the tag of its lower-case form:
\* lines that differ only in letter case parse to events with the same flags.
C8_CaseInsensitive ==
  ParsedText =>
    \A i \in DOMAIN Lines :
      LET l == Lines[i]
          low == LowerCased(LettersOf(l))
      IN Matched(l) =>
           /\ RE_WEEKLY(l).ok => RE_WEEKLY(<<"d">> \o Tail(l)).ok /\ RE_WEEKLY(<<"D">> \o Tail(l)).ok
           /\ Decode(LettersOf(l)) = Decode(low)
           /\ LineFlags(LettersOf(l)) = LineFlags(low)

\* The declaration order of the categories: type family, then time/location.
DeclaredOrder ==
  <<"business", "weekend", "birthday", "ill", "in", "course", "other",
    "half_am", "half_pm", "onsite", "no_fly", "can_fly">>

Rank(f) == CHOOSE i \in DOMAIN DeclaredOrder : DeclaredOrder[i] = f

\* C9: the letters to_text writes for a range or weekly event are those of
\* the known flags the event has, each once, in the declared order whatever
\* the order of the flags list, before the date of a range line and after
\* d<weekday> of a weekly line.
C9_CanonicalOrder ==
  /\ pc \in {"rendered", "reparsed", "rerendered"} /\ ~parsed.raised =>
       \A i \in DOMAIN parsed.events :
         LET ev == parsed.events[i]
             line == RenderedLines[i]
             L == WrittenLetters(ev, line)
         IN ev.type \in {"range", "weekly"} =>
              /\ \A j \in DOMAIN L : L[j] \in DOMAIN PREFIX_MAP
              /\ \A j, k \in DOMAIN L : j < k => Rank(PREFIX_MAP[L[j]]) < Rank(PREFIX_MAP[L[k]])
              /\ {PREFIX_MAP[L[j]] : j \in DOMAIN L} = SeqRange(ev.flags) \cap SeqRange(DeclaredOrder)
              /\ ev.type = "range" =>
                   SubSeq(line, 1, Len(L) + 21) = L \o ev.start \o <<"-">> \o ev.end
              /\ ev.type = "weekly" =>
                   SubSeq(line, 1, Len(L) + 2) = <<"d">> \o StrNat(ev.weekday) \o L
  /\ RenderedText /\ text = <<"a", "b">> \o DateC =>
       rendered = [raised |-> FALSE, text |-> <<"b", "a">> \o DateC \o <<"-">> \o DateC]

\* An event whose flags list holds a time flag before a type flag has been
\* rendered with the type letter first.
C9_Witness ==
  /\ pc = "rendered" /\ ~parsed.raised
  /\ \E i \in DOMAIN parsed.events :
       /\ parsed.events[i].type \in {"range", "weekly"}
       /\ Len(parsed.events[i].flags) >= 2
       /\ parsed.events[i].flags[1] = "half_am"
       /\ parsed.events[i].flags[2] = "business"
       /\ SubSeq(WrittenLetters(parsed.events[i], RenderedLines[i]), 1, 2) = <<"b", "a">>

\* C10: get_hday(u) returns as raw text the rendering of the events of the
\* most recent put_hday(u), the empty text with no events if there was none;
\* a put changes the stored text of its user alone, a get changes none.
C10_StoreReturnsLastPut ==
  /\ \A u \in Users :
       /\ files[u].exists = lastPut[u].put
       /\ ReadFile(files[u]) = to_text(lastPut[u].events)
  /\ resp.op = "get" =>
       /\ ~resp.raised
       /\ resp.raw = to_text(lastPut[resp.user].events)
       /\ ~lastPut[resp.user].put => resp.raw = <<>> /\ resp.events = <<>>

\* The stored texts are those of the last puts, and a get that returns
\* returns the stored text.
StoredIsLastPut ==
  /\ \A u \in Users :
       /\ files[u].exists = lastPut[u].put
       /\ ReadFile(files[u]) = to_text(lastPut[u].events)
  /\ resp.op = "get" /\ ~resp.raised => resp.raw = to_text(lastPut[resp.user].events)

====
